---------------------------- MODULE Spec2Model ----------------------------
(***************************************************************************)
(* A model of the HR agent dashboard (React component App) together with   *)
(* the REST backend it talks to.  The component's useState cells are the   *)
(* variables; every event handler and every settlement of an awaited fetch *)
(* is one action.  The backend (Flask app, ranking pipeline, calendar and  *)
(* mail tools) is not part of the source tree: its operators are modelled  *)
(* from the written specification and are marked as such where defined.    *)
(***************************************************************************)
EXTENDS Integers, Sequences, FiniteSets, TLC

VARIABLES
    jobDescription,        \* useState('')           : sequence of characters
    uploadedFiles,         \* useState<File[]>([])   : sequence of File
    candidates,            \* useState<Candidate[]>  : sequence of Candidate
    status,                \* useState<ProcessingStatus>
    calendarUrl,           \* useState('')
    availability,          \* useState<AvailabilitySlot[]>([])
    selectedCandidate,     \* Candidate | null, <<>> is null
    isSchedulingModalOpen, \* boolean
    draftEmail,            \* string, <<>> is ''
    selectedSlot,          \* string | null, <<>> is null
    emailTemplate,         \* 'professional' | 'casual' | 'technical'
    selectedDate,          \* Date | null, <<>> is null
    selectedTime,          \* 'HH:MM' or '', <<>> is ''
    processRequests,       \* POST /api/process requests not yet settled
    scheduleRequests,      \* POST /api/schedule requests not yet settled, with the
                           \* backend's progress on each
    availabilityRequests,  \* GET /api/availability of openSchedulingModal, unsettled
    initialLoad,           \* position of the mount effect fetchData
    busy,                  \* busy intervals held by the calendar provider
    timezone,              \* browser's offset from UTC in minutes (east positive)
    lastCall,              \* the handler or continuation that ran last
    offeredLog,            \* what kinds of file the user has offered so far
    draftRequests,         \* POST /api/draft_email requests not yet settled
    draftDeps              \* dependency values the draft effect last ran with

vars == <<jobDescription, uploadedFiles, candidates, status, calendarUrl,
          availability, selectedCandidate, isSchedulingModalOpen, draftEmail,
          selectedSlot, emailTemplate, selectedDate, selectedTime,
          processRequests, scheduleRequests, availabilityRequests, initialLoad,
          busy, timezone, lastCall, offeredLog, draftRequests, draftDeps>>

processVars == <<jobDescription, uploadedFiles, candidates, processRequests,
                 offeredLog>>
modalVars == <<selectedCandidate, isSchedulingModalOpen, draftEmail,
               selectedSlot, emailTemplate, selectedDate, selectedTime>>
scheduleVars == <<scheduleRequests>>
loadVars == <<calendarUrl, availability, availabilityRequests, initialLoad, busy,
              timezone>>
draftVars == <<draftRequests, draftDeps>>

\* [selectedDate, selectedTime, selectedCandidate, emailTemplate]
DraftDeps == <<selectedDate, selectedTime, selectedCandidate, emailTemplate>>

-----------------------------------------------------------------------------
(* Bounds of the model *)

MaxFiles == 2          \* longest uploadedFiles list explored
MaxInFlight == 1       \* requests to one endpoint awaiting their response at once
MaxDrafts == 2         \* distinct /api/draft_email requests awaiting their response

-----------------------------------------------------------------------------
(* Values *)

Null == <<>>
Some(x) == <<x>>
IsNull(x) == x = <<>>

PDF == "application/pdf"
FileTypes == {PDF, "text/plain"}
FileNames == {"a", "b"}
File == [name : FileNames, type : FileTypes]

Range(s) == {s[i] : i \in 1..Len(s)}

\* The file lists a file dialog or a drag-and-drop gesture may deliver.
FileOffers ==
    {<<>>} \cup {<<f>> : f \in File} \cup {<<f, g>> : f \in File, g \in File}

\* Offers of files that differ in type only.
PlainOffers == {files \in FileOffers : \A f \in Range(files) : f.name = "a"}

\* Texts the user may type into the job description field.
JobDescriptions == {<<>>, <<" ", " ">>, <<" ", "g", "o">>}

Scores == {1, 2}
Templates == {"professional", "casual"}

\* String.prototype.trim: strips white space from both ends.
RECURSIVE TrimLeft(_)
TrimLeft(s) == IF s # <<>> /\ Head(s) = " " THEN TrimLeft(Tail(s)) ELSE s
RECURSIVE TrimRight(_)
TrimRight(s) ==
    IF s # <<>> /\ s[Len(s)] = " " THEN TrimRight(SubSeq(s, 1, Len(s) - 1)) ELSE s
Trim(s) == TrimRight(TrimLeft(s))

\* Array.prototype.filter(file => file.type === 'application/pdf')
PdfFilesUnfiltered(files) == files
RECURSIVE PdfFiles(_)
PdfFiles(files) ==
    IF files = <<>> THEN <<>>
    ELSE IF Head(files).type = PDF
         THEN <<Head(files)>> \o PdfFiles(Tail(files))
         ELSE PdfFiles(Tail(files))

RemoveLast(prev, index) == SubSeq(prev, 1, Len(prev) - 1)
\* prev.filter((_, i) => i !== index), index counted from 0
RemoveAt(prev, index) ==
    [i \in 1..(Len(prev) - 1) |-> IF i <= index THEN prev[i] ELSE prev[i + 1]]

\* The handler or continuation that ran, with the outcome it was handed.
Call(name, outcome) == [name |-> name, outcome |-> outcome]

Msg(text, name, count) == [text |-> text, name |-> name, count |-> count]
MkStatus(p, s, m, t) ==
    [isProcessing |-> p, isScheduling |-> s, message |-> m, type |-> t]

-----------------------------------------------------------------------------
(* Ranking pipeline of the backend: POST /api/process.  Not in the source  *)
(* tree; written from sections 4.1 and 6 of the specification.             *)

\* One parsed resume per readable file, in upload order.
RECURSIVE ParseResumes(_, _, _, _)
ParseResumes(resumes, scoreOf, readable, i) ==
    IF i > Len(resumes) THEN <<>>
    ELSE (IF i \in readable
          THEN <<[name |-> resumes[i].name, score |-> scoreOf[i], upload |-> i]>>
          ELSE <<>>) \o ParseResumes(resumes, scoreOf, readable, i + 1)

\* Insert c behind every element whose score is not lower (keeps ties in order).
RECURSIVE InsertByScore(_, _)
InsertByScore(sorted, c) ==
    IF sorted = <<>> THEN <<c>>
    ELSE IF Head(sorted).score >= c.score
         THEN <<Head(sorted)>> \o InsertByScore(Tail(sorted), c)
         ELSE <<c>> \o sorted

\* Stable sort by descending score.
RECURSIVE SortByScore(_)
SortByScore(list) ==
    IF list = <<>> THEN <<>>
    ELSE InsertByScore(SortByScore(SubSeq(list, 1, Len(list) - 1)), list[Len(list)])

RankCandidates(resumes, scoreOf, readable) ==
    SortByScore(ParseResumes(resumes, scoreOf, readable, 1))

\* What a settled /api/process fetch can deliver for a request: a rejected
\* fetch, a non-OK status, a body that is not the documented JSON, or
\* { candidates: [...] }.
ProcessResponses(req) ==
    {[kind |-> k, candidates |-> <<>>] : k \in {"network_error", "http_error", "bad_body"}}
    \cup {[kind |-> "ok", candidates |-> RankCandidates(req.resumes, sc, rd)] :
             sc \in [1..Len(req.resumes) -> Scores],
             rd \in SUBSET (1..Len(req.resumes))}

\* The id and selected fields a response's candidate may carry of its own.
ResponseTags == [id : {<<"candidate", 0>>, <<"resp", 1>>}, selected : BOOLEAN]

\* A ranked list whose candidates carry such fields.
Tagged(list, tag) == [i \in 1..Len(list) |-> tag[i] @@ list[i]]

\* { candidates: [...] } with candidates that carry an id and a selected flag.
TaggedResponses(req) ==
    UNION {{[kind |-> "ok_with_ids", candidates |-> Tagged(list, tag)] :
               tag \in [1..Len(list) -> ResponseTags]} :
           list \in {RankCandidates(req.resumes, sc, rd) :
                        sc \in [1..Len(req.resumes) -> Scores],
                        rd \in SUBSET (1..Len(req.resumes))}}

\* The words text extraction finds in a resume, and the key words of a job
\* description (every character stands for a word, a blank separates).
ResumeText(file) == IF file.name = "a" THEN {"g", "o"} ELSE {"x"}
Keywords(jd) == Range(jd) \ {" "}

\* The keyword-overlap count used when the AI answer cannot be parsed.
FallbackScore(text, jd) == Cardinality(text \cap Keywords(jd))

\* What the AI call gave for one resume: a parsed score, or an answer that
\* does not parse (whatever number may be read out of it is not to be used).
AiOutcomes == [parsed : BOOLEAN, score : Scores]

ScoreOfUnparsedAnswer(outcome, text, jd) == outcome.score
ScoreOf(outcome, text, jd) ==
    IF outcome.parsed THEN outcome.score ELSE FallbackScore(text, jd)

\* One scored resume per readable file, in upload order, tagged with the
\* path that scored it.
RECURSIVE ScoreResumes(_, _, _, _, _)
ScoreResumes(resumes, jd, ai, readable, i) ==
    IF i > Len(resumes) THEN <<>>
    ELSE (IF i \in readable
          THEN <<[name |-> resumes[i].name,
                  score |-> ScoreOf(ai[i], ResumeText(resumes[i]), jd),
                  upload |-> i,
                  source |-> IF ai[i].parsed THEN "ai" ELSE "fallback"]>>
          ELSE <<>>) \o ScoreResumes(resumes, jd, ai, readable, i + 1)

\* The pipeline runs on a request it has received: text extraction and the
\* AI call go one way or the other for each resume, and the ranked list is
\* the response the request will get.
RunRanking(i) ==
    /\ i \in 1..Len(processRequests)
    /\ "response" \notin DOMAIN processRequests[i]
    /\ \E ai \in [1..Len(processRequests[i].resumes) -> AiOutcomes],
          rd \in SUBSET (1..Len(processRequests[i].resumes)) :
          processRequests' = [processRequests EXCEPT ![i] =
              [ai |-> ai, readable |-> rd,
               response |-> [kind |-> "ok",
                             candidates |-> SortByScore(ScoreResumes(
                                 processRequests[i].resumes,
                                 processRequests[i].job_description, ai, rd, 1))]]
              @@ processRequests[i]]
    /\ lastCall' = Call("backend:rank", "")
    /\ UNCHANGED <<jobDescription, uploadedFiles, candidates, offeredLog, status,
                   modalVars, scheduleVars, loadVars, draftVars>>

-----------------------------------------------------------------------------
(* Event handlers of App: resume upload and processing *)

CandidateId(index) == <<"candidate", index>>

\* data.candidates.map((candidate, index) => ({...candidate, id, selected: false}))
MapCandidatesReversed(list) ==
    [i \in 1..Len(list) |->
        [id |-> CandidateId(i - 1), name |-> list[Len(list) + 1 - i].name,
         score |-> list[Len(list) + 1 - i].score,
         upload |-> list[Len(list) + 1 - i].upload, selected |-> FALSE]]
MapCandidatesSpreadLast(list) ==
    [i \in 1..Len(list) |-> list[i] @@ [id |-> CandidateId(i - 1), selected |-> FALSE]]
MapCandidates(list) ==
    [i \in 1..Len(list) |-> [id |-> CandidateId(i - 1), selected |-> FALSE] @@ list[i]]

\* !jobDescription.trim() || uploadedFiles.length === 0
MissingInputUntrimmed(jd, files) == jd = <<>> \/ Len(files) = 0
MissingInput(jd, files) == Trim(jd) = <<>> \/ Len(files) = 0

NoteOffer(files) ==
    [pdf |-> offeredLog.pdf \/ (\E f \in Range(files) : f.type = PDF),
     other |-> offeredLog.other \/ (\E f \in Range(files) : f.type # PDF)]

setJobDescription(value) ==
    /\ jobDescription' = value
    /\ lastCall' = Call("setJobDescription", "")
    /\ UNCHANGED <<uploadedFiles, candidates, processRequests, offeredLog, status,
                   modalVars, scheduleVars, loadVars, draftVars>>

handleFileUpload(files) ==
    /\ Len(uploadedFiles) + Len(PdfFiles(files)) <= MaxFiles
    /\ uploadedFiles' = uploadedFiles \o PdfFiles(files)
    /\ offeredLog' = NoteOffer(files)
    /\ lastCall' = Call("handleFileUpload", "")
    /\ UNCHANGED <<jobDescription, candidates, processRequests, status,
                   modalVars, scheduleVars, loadVars, draftVars>>

handleFileDrop(files) ==
    /\ Len(uploadedFiles) + Len(PdfFiles(files)) <= MaxFiles
    /\ uploadedFiles' = uploadedFiles \o PdfFiles(files)
    /\ offeredLog' = NoteOffer(files)
    /\ lastCall' = Call("handleFileDrop", "")
    /\ UNCHANGED <<jobDescription, candidates, processRequests, status,
                   modalVars, scheduleVars, loadVars, draftVars>>

removeFile(index) ==
    /\ index < Len(uploadedFiles)
    /\ uploadedFiles' = RemoveAt(uploadedFiles, index)
    /\ lastCall' = Call("removeFile", "")
    /\ UNCHANGED <<jobDescription, candidates, processRequests, offeredLog, status,
                   modalVars, scheduleVars, loadVars, draftVars>>

toggleEverySelection(candidateId) ==
    /\ candidates' = [i \in 1..Len(candidates) |->
                        [candidates[i] EXCEPT !.selected = ~candidates[i].selected]]
    /\ lastCall' = Call("toggleCandidateSelection", "")
    /\ UNCHANGED <<jobDescription, uploadedFiles, processRequests, offeredLog, status,
                   modalVars, scheduleVars, loadVars, draftVars>>

toggleCandidateSelection(candidateId) ==
    /\ candidates' = [i \in 1..Len(candidates) |->
                        IF candidates[i].id = candidateId
                        THEN [candidates[i] EXCEPT !.selected = ~candidates[i].selected]
                        ELSE candidates[i]]
    /\ lastCall' = Call("toggleCandidateSelection", "")
    /\ UNCHANGED <<jobDescription, uploadedFiles, processRequests, offeredLog, status,
                   modalVars, scheduleVars, loadVars, draftVars>>

\* processResumes up to its await: the validation return, or the request.
processResumes ==
    /\ lastCall' = Call("processResumes", "")
    /\ IF MissingInput(jobDescription, uploadedFiles)
       THEN /\ status' = MkStatus(FALSE, FALSE,
                   Msg("Please provide job description and upload resumes", "", 0), "error")
            /\ UNCHANGED processRequests
       ELSE /\ Len(processRequests) < MaxInFlight
            /\ status' = MkStatus(TRUE, FALSE,
                   Msg("Analyzing resumes and ranking candidates...", "", 0), "info")
            /\ processRequests' = Append(processRequests,
                   [job_description |-> jobDescription, resumes |-> uploadedFiles])
    /\ UNCHANGED <<jobDescription, uploadedFiles, candidates, offeredLog,
                   modalVars, scheduleVars, loadVars, draftVars>>

ProcessingErrorStatusStillBusy ==
    MkStatus(TRUE, FALSE, Msg("Error processing resumes. Please try again.", "", 0),
             "error")

\* catch: setStatus
ProcessingErrorStatus ==
    MkStatus(FALSE, FALSE, Msg("Error processing resumes. Please try again.", "", 0),
             "error")

\* processResumes after its await: the try block's tail, or the catch block.
ProcessContinuation(resp) ==
    IF resp.kind \in {"ok", "ok_with_ids"}
    THEN /\ candidates' = MapCandidates(resp.candidates)
         /\ status' = MkStatus(FALSE, FALSE,
                Msg("Successfully analyzed candidates", "", Len(resp.candidates)), "success")
         /\ lastCall' = Call("processResumes:resolved", resp.kind)
    ELSE /\ status' = ProcessingErrorStatus
         /\ lastCall' = Call("processResumes:caught", resp.kind)
         /\ UNCHANGED candidates

ProcessSettled(i) ==
    /\ i \in 1..Len(processRequests)
    /\ \E resp \in ProcessResponses(processRequests[i]) : ProcessContinuation(resp)
    /\ processRequests' = RemoveAt(processRequests, i - 1)
    /\ UNCHANGED <<jobDescription, uploadedFiles, offeredLog,
                   modalVars, scheduleVars, loadVars, draftVars>>

\* processResumes after its await, handed a response whose candidates carry
\* fields of their own.
TaggedSettled(i) ==
    /\ i \in 1..Len(processRequests)
    /\ \E resp \in TaggedResponses(processRequests[i]) : ProcessContinuation(resp)
    /\ processRequests' = RemoveAt(processRequests, i - 1)
    /\ UNCHANGED <<jobDescription, uploadedFiles, offeredLog,
                   modalVars, scheduleVars, loadVars, draftVars>>

\* processResumes after its await, handed the response the pipeline computed.
RankedSettled(i) ==
    /\ i \in 1..Len(processRequests)
    /\ "response" \in DOMAIN processRequests[i]
    /\ ProcessContinuation(processRequests[i].response)
    /\ processRequests' = RemoveAt(processRequests, i - 1)
    /\ UNCHANGED <<jobDescription, uploadedFiles, offeredLog,
                   modalVars, scheduleVars, loadVars, draftVars>>

-----------------------------------------------------------------------------
(* Dates and times *)

Days == {1, 2}
\* Times of day (minutes after local midnight) a Date from the picker carries.
ClockTimes == {0, 600, 1380}
TzOffsets == {0, -300, 60}

InterviewMinutes == 30

\* A Date is a local wall-clock reading [day, min]; Normalize carries minutes
\* over into days.
Normalize(day, min) == [day |-> day + (min \div 1440), min |-> min % 1440]

\* Date.prototype.setHours(hours, minutes, 0, 0) on a copy of date
SetHours(date, hours, minutes) == Normalize(date.day, hours * 60 + minutes)

\* Date.prototype.setMinutes(getMinutes() + n)
AddMinutes(date, n) == Normalize(date.day, date.min + n)

\* A browser whose zone observes daylight saving time is known by its summer
\* offset; its clocks go back one hour when the local reading reaches
\* FallBack, and a reading of the repeated hour is taken as the earlier
\* instant.
SummerOffset == -240
FallBack == [day |-> 2, min |-> 120]
Offset(date) ==
    IF /\ timezone = SummerOffset
       /\ (date.day > FallBack.day
            \/ (date.day = FallBack.day /\ date.min >= FallBack.min))
    THEN timezone - 60
    ELSE timezone

\* Date.prototype.toISOString(): the same instant read in UTC
ToISOString(date) == Normalize(date.day, date.min - Offset(date))

\* toISOString().split('T')[0]
IsoDate(date) == ToISOString(date).day

\* 'HH:MM' is held as the pair <<HH, MM>>; '' is the empty sequence.
\* selectedTime.split(':').map(Number)
SplitTime(time) == [hours |-> time[1], minutes |-> time[2]]

-----------------------------------------------------------------------------
(* Scheduling component of the backend: GET /api/availability and          *)
(* POST /api/schedule.  Not in the source tree; written from sections 4.2, *)
(* 6 and 7 of the specification.                                           *)

\* Configured business hours and slot granularity, in minutes of the day.
BusinessStart == 540
BusinessEnd == 600
SlotMinutes == 30

\* Interval end points the calendar provider may report as busy.
BusyTimes == {525, 555, 570, 615}
BusyIntervals ==
    {[day |-> d, from |-> f, to |-> t] : d \in Days, f \in BusyTimes, t \in BusyTimes}
MaxBusy == 1

\* The slot starting at t on day overlaps the interval b.
OverlapsStartOnly(day, t, b) == b.day = day /\ b.from <= t /\ t < b.to
Overlaps(day, t, b) == b.day = day /\ b.from < t + SlotMinutes /\ t < b.to

SlotString(t) == <<t \div 60, t % 60>>

\* The free slots of a day from t on, in time order.
RECURSIVE FreeSlotsFrom(_, _, _)
FreeSlotsFrom(t, day, busySet) ==
    IF t + SlotMinutes > BusinessEnd THEN <<>>
    ELSE (IF \E b \in busySet : Overlaps(day, t, b) THEN <<>> ELSE <<SlotString(t)>>)
         \o FreeSlotsFrom(t + SlotMinutes, day, busySet)

\* The ordered list of {date, slots} for a window of days.
ComputeAvailability(window, busySet) ==
    [i \in 1..Len(window) |->
        [date |-> window[i], slots |-> FreeSlotsFrom(BusinessStart, window[i], busySet)]]

\* The windows of days the backend may be configured to look ahead.
Windows == {<<>>, <<1>>, <<1, 2>>}

Array(items) == [isArray |-> TRUE, items |-> items]
ErrorBody == [isArray |-> FALSE, items |-> <<>>]

\* What a settled /api/availability fetch can deliver: a rejected fetch, a
\* non-OK status with or without a JSON body, or the computed list.
AvailabilityResponses ==
    {[kind |-> k, body |-> ErrorBody] : k \in {"network_error", "http_error", "http_error_json"}}
    \cup {[kind |-> "ok", body |-> Array(ComputeAvailability(w, busy))] : w \in Windows}

PartialMessage == "Calendar event created, but the invitation email was not sent"

\* The response of /api/schedule for a request whose two steps have run.
ScheduleResponses(req) ==
    {[kind |-> "network_error", status |-> "none", message |-> ""]}
    \cup (IF req.event = "failed"
          THEN {[kind |-> "http_error", status |-> "error",
                 message |-> "Failed to create calendar event"]}
          ELSE IF req.email = "sent"
          THEN {[kind |-> "ok", status |-> "success", message |-> m] :
                    m \in {"", "Interview scheduled and invitation sent"}}
          ELSE IF req.email = "failed"
          THEN {[kind |-> "ok", status |-> "partial", message |-> PartialMessage]}
          ELSE {})

\* Step one of the sequence: create the calendar event.
CreateEvent(i) ==
    /\ i \in 1..Len(scheduleRequests)
    /\ scheduleRequests[i].event = "pending"
    /\ \E result \in {"created", "failed"} :
          scheduleRequests' = [scheduleRequests EXCEPT ![i].event = result]
    /\ lastCall' = Call("backend:createEvent", "")
    /\ UNCHANGED <<processVars, status, modalVars, loadVars, draftVars>>

\* Step two, taken only once the event exists: send the invitation email.
SendEmailEnabled(req) == req.event = "created" /\ req.email = "none"

SendEmail(i) ==
    /\ i \in 1..Len(scheduleRequests)
    /\ SendEmailEnabled(scheduleRequests[i])
    /\ \E result \in {"sent", "failed"} :
          scheduleRequests' = [scheduleRequests EXCEPT ![i].email = result]
    /\ lastCall' = Call("backend:sendEmail", "")
    /\ UNCHANGED <<processVars, status, modalVars, loadVars, draftVars>>

-----------------------------------------------------------------------------
(* Event handlers of App: the scheduling dialog *)

\* {isSchedulingModalOpen && selectedCandidate && ( ... )}
ModalRendered == isSchedulingModalOpen /\ ~IsNull(selectedCandidate)

\* availability.find and availability.map are not functions when the stored
\* body is no array: with a date selected the useMemo callback throws during
\* render, with the dialog rendered its highlightDates does, and React takes
\* the component off the page.
RenderThrows == ~availability.isArray /\ (ModalRendered \/ ~IsNull(selectedDate))

\* useMemo over [selectedDate, availability]; nothing is rendered when it throws.
availableSlotsForSelectedDate ==
    IF IsNull(selectedDate) \/ RenderThrows THEN <<>>
    ELSE LET dateString == IsoDate(selectedDate[1])
             found == {i \in 1..Len(availability.items) :
                          availability.items[i].date = dateString}
         IN IF found = {} THEN <<>>
            ELSE availability.items[CHOOSE i \in found : \A j \in found : i <= j].slots

openSchedulingModal(candidate) ==
    /\ availabilityRequests < MaxInFlight
    /\ selectedCandidate' = Some(candidate)
    /\ isSchedulingModalOpen' = TRUE
    /\ availabilityRequests' = availabilityRequests + 1
    /\ lastCall' = Call("openSchedulingModal", "")
    /\ UNCHANGED <<processVars, status, scheduleVars, draftEmail, selectedSlot,
                   emailTemplate, selectedDate, selectedTime, calendarUrl,
                   availability, initialLoad, busy, timezone, draftVars>>

\* openSchedulingModal after its await: response.json() is stored whatever
\* the HTTP status was; a rejected fetch or an unreadable body is only logged.
AvailabilitySettled ==
    /\ availabilityRequests > 0
    /\ availabilityRequests' = availabilityRequests - 1
    /\ \E resp \in AvailabilityResponses :
          IF resp.kind \in {"ok", "http_error_json"}
          THEN /\ availability' = resp.body
               /\ lastCall' = Call("openSchedulingModal:resolved", resp.kind)
          ELSE /\ UNCHANGED availability
               /\ lastCall' = Call("openSchedulingModal:caught", resp.kind)
    /\ UNCHANGED <<processVars, status, scheduleVars, modalVars, calendarUrl,
                   initialLoad, busy, timezone, draftVars>>

DatePickerChangeKeepsTime(date) ==
    /\ selectedDate' = Some(date)
    /\ lastCall' = Call("DatePicker.onChange", "")
    /\ UNCHANGED <<processVars, status, scheduleVars, loadVars, draftVars, selectedCandidate,
                   isSchedulingModalOpen, draftEmail, emailTemplate, selectedTime,
                   selectedSlot>>

\* DatePicker onChange
DatePickerChange(date) ==
    /\ selectedDate' = Some(date)
    /\ selectedTime' = <<>>
    /\ selectedSlot' = Null
    /\ lastCall' = Call("DatePicker.onChange", "")
    /\ UNCHANGED <<processVars, status, scheduleVars, loadVars, draftVars, selectedCandidate,
                   isSchedulingModalOpen, draftEmail, emailTemplate>>

\* onClick of the button rendered for one of availableSlotsForSelectedDate
SlotClick(time) ==
    /\ time \in Range(availableSlotsForSelectedDate)
    /\ selectedTime' = time
    /\ selectedSlot' = Some(time)
    /\ lastCall' = Call("slot.onClick", "")
    /\ UNCHANGED <<processVars, status, scheduleVars, loadVars, draftVars, selectedCandidate,
                   isSchedulingModalOpen, draftEmail, emailTemplate, selectedDate>>

setEmailTemplate(value) ==
    /\ emailTemplate' = value
    /\ lastCall' = Call("setEmailTemplate", "")
    /\ UNCHANGED <<processVars, status, scheduleVars, loadVars, draftVars, selectedCandidate,
                   isSchedulingModalOpen, draftEmail, selectedSlot, selectedDate,
                   selectedTime>>

\* onClick of Cancel
CancelClick ==
    /\ isSchedulingModalOpen' = FALSE
    /\ lastCall' = Call("cancel.onClick", "")
    /\ UNCHANGED <<processVars, status, scheduleVars, loadVars, draftVars, selectedCandidate,
                   draftEmail, selectedSlot, emailTemplate, selectedDate, selectedTime>>

\* !selectedCandidate || !selectedDate || !selectedTime
MissingSelectionTimeForgotten(candidate, date, time) == IsNull(candidate) \/ IsNull(date)
MissingSelection(candidate, date, time) ==
    IsNull(candidate) \/ IsNull(date) \/ time = <<>>

\* A time that does not split into two numbers makes setHours produce an
\* Invalid Date, whose toISOString throws inside the try block.
InvalidDate(time) == Len(time) # 2

ScheduleRequest(candidate, date, time, template) ==
    LET startDateTime == SetHours(date, SplitTime(time).hours, SplitTime(time).minutes)
        endDateTime == AddMinutes(startDateTime, InterviewMinutes)
    IN [candidate |-> candidate,
        start_time |-> ToISOString(startDateTime),
        end_time |-> ToISOString(endDateTime),
        template |-> template,
        event |-> "pending", email |-> "none"]

SchedulingErrorStatusStillBusy ==
    MkStatus(FALSE, TRUE, Msg("Error scheduling interview. Please try again.", "", 0),
             "error")

SchedulingErrorStatus ==
    MkStatus(FALSE, FALSE, Msg("Error scheduling interview. Please try again.", "", 0),
             "error")

\* handleScheduleInterview up to its await: the validation return, an
\* exception before the fetch (caught in the same run), or the request.
handleScheduleInterview ==
    /\ lastCall' = Call("handleScheduleInterview", "")
    /\ IF MissingSelection(selectedCandidate, selectedDate, selectedTime)
       THEN /\ status' = MkStatus(FALSE, FALSE,
                   Msg("Please select a candidate, date and time", "", 0), "error")
            /\ UNCHANGED scheduleRequests
       ELSE IF InvalidDate(selectedTime)
       THEN /\ status' = SchedulingErrorStatus
            /\ UNCHANGED scheduleRequests
       ELSE /\ Len(scheduleRequests) < MaxInFlight
            /\ status' = MkStatus(FALSE, TRUE,
                   Msg("Scheduling interview for ...", selectedCandidate[1].name, 0), "info")
            /\ scheduleRequests' = Append(scheduleRequests,
                   ScheduleRequest(selectedCandidate[1], selectedDate[1], selectedTime,
                                   emailTemplate))
    /\ UNCHANGED <<processVars, modalVars, loadVars, draftVars>>

\* if (!response.ok) throw ...: which settled fetches reach the catch block
ResponseNeverRejected(resp) == FALSE
ResponseRejected(resp) == resp.kind # "ok"

\* data.message || 'Interview scheduled successfully!'
ScheduledFixedMessage(resp) == "Interview scheduled successfully!"
ScheduledMessage(resp) ==
    IF resp.message # "" THEN resp.message ELSE "Interview scheduled successfully!"

\* handleScheduleInterview after its await: the try block's tail, or the catch block.
ScheduleContinuation(resp) ==
    IF ~ResponseRejected(resp)
    THEN /\ status' = MkStatus(FALSE, FALSE, Msg(ScheduledMessage(resp), "", 0), "success")
         /\ isSchedulingModalOpen' = FALSE
         /\ selectedCandidate' = Null
         /\ selectedSlot' = Null
         /\ selectedDate' = Null
         /\ selectedTime' = <<>>
         /\ draftEmail' = <<>>
         /\ lastCall' = Call("handleScheduleInterview:resolved", resp.status)
         /\ UNCHANGED emailTemplate
    ELSE /\ status' = SchedulingErrorStatus
         /\ lastCall' = Call("handleScheduleInterview:caught", resp.status)
         /\ UNCHANGED modalVars

ScheduleSettled(i) ==
    /\ i \in 1..Len(scheduleRequests)
    /\ \E resp \in ScheduleResponses(scheduleRequests[i]) : ScheduleContinuation(resp)
    /\ scheduleRequests' = RemoveAt(scheduleRequests, i - 1)
    /\ UNCHANGED <<processVars, loadVars, draftVars>>

-----------------------------------------------------------------------------
(* The bulk scheduling variant of App: scheduleInterviews *)

\* candidates.filter(c => c.selected)
SelectedCandidatesUnfiltered(list) == list
RECURSIVE SelectedCandidates(_)
SelectedCandidates(list) ==
    IF list = <<>> THEN <<>>
    ELSE IF Head(list).selected
         THEN <<Head(list)>> \o SelectedCandidates(Tail(list))
         ELSE SelectedCandidates(Tail(list))

\* selectedCandidates.map(c => ({ name: c.name, email: c.email, phone: c.phone }))
ContactOf(c) == [name |-> c.name, email |-> c.email, phone |-> c.phone]
BulkRequest(selected) ==
    [candidates |-> [k \in 1..Len(selected) |-> ContactOf(selected[k])]]

BulkErrorStatus ==
    MkStatus(FALSE, FALSE, Msg("Error scheduling interviews. Please try again.", "", 0),
             "error")

\* scheduleInterviews up to its await: the validation return, or the request.
scheduleInterviews ==
    /\ lastCall' = Call("scheduleInterviews", "")
    /\ IF Len(SelectedCandidates(candidates)) = 0
       THEN /\ status' = MkStatus(FALSE, FALSE,
                   Msg("Please select at least one candidate", "", 0), "error")
            /\ UNCHANGED scheduleRequests
       ELSE /\ Len(scheduleRequests) < MaxInFlight
            /\ status' = MkStatus(FALSE, TRUE,
                   Msg("Scheduling interviews for ... candidates...", "",
                       Len(SelectedCandidates(candidates))), "info")
            /\ scheduleRequests' = Append(scheduleRequests,
                   BulkRequest(SelectedCandidates(candidates)))
    /\ UNCHANGED <<processVars, modalVars, loadVars, draftVars>>

\* What a settled /api/schedule fetch of the bulk variant can deliver
\* (written from the specification: per-candidate results are aggregated into
\* one answer).
BulkResponses ==
    {[kind |-> k, message |-> ""] : k \in {"network_error", "http_error"}}
    \cup {[kind |-> "ok", message |-> m] : m \in {"", "Scheduled 1 of 2 interviews"}}

\* scheduleInterviews after its await: the try block's tail, or the catch block.
BulkScheduleSettled(i) ==
    /\ i \in 1..Len(scheduleRequests)
    /\ scheduleRequests' = RemoveAt(scheduleRequests, i - 1)
    /\ \E resp \in BulkResponses :
          IF resp.kind = "ok"
          THEN /\ status' = MkStatus(FALSE, FALSE,
                      Msg(IF resp.message # "" THEN resp.message
                          ELSE "Interviews scheduled successfully!", "", 0), "success")
               /\ lastCall' = Call("scheduleInterviews:resolved", resp.kind)
          ELSE /\ status' = BulkErrorStatus
               /\ lastCall' = Call("scheduleInterviews:caught", resp.kind)
    /\ UNCHANGED <<processVars, modalVars, loadVars, draftVars>>

-----------------------------------------------------------------------------
(* The draft effect of App and POST /api/draft_email *)

\* The body of the /api/draft_email request for the present selection:
\* toLocaleDateString and toLocaleTimeString give the local date and time.
DraftRequest ==
    [candidate |-> selectedCandidate[1], date |-> selectedDate[1].day,
     time |-> selectedTime, template |-> emailTemplate]

\* if (selectedDate && selectedTime && selectedCandidate)
DraftWanted == ~IsNull(selectedDate) /\ selectedTime # <<>> /\ ~IsNull(selectedCandidate)

\* The effect's dependencies are what it last ran with: React has run it for
\* the present render.
Flushed == DraftDeps = draftDeps

\* The effect, run after a render in which one of its dependencies changed:
\* up to the await of fetchDraft.
fetchDraftEffect ==
    /\ ~RenderThrows
    /\ ~Flushed
    /\ draftDeps' = DraftDeps
    /\ IF DraftWanted
       THEN /\ Cardinality(draftRequests \cup {DraftRequest}) <= MaxDrafts
            /\ draftRequests' = draftRequests \cup {DraftRequest}
       ELSE UNCHANGED draftRequests
    /\ lastCall' = Call("fetchDraft", "")
    /\ UNCHANGED <<processVars, status, scheduleVars, modalVars, loadVars>>

\* The backend fills the static template of the given name with the
\* candidate's name and the interview details (written from the
\* specification; the backend is not in the source tree).
Draft(req) ==
    [name |-> req.candidate.name, date |-> req.date, time |-> req.time,
     template |-> req.template]

\* What a settled /api/draft_email fetch can deliver: a rejected fetch, a
\* JSON body without a draft (an error body), or the draft.
DraftResponses(req) ==
    {[kind |-> "network_error", draft |-> <<>>],
     [kind |-> "http_error_json", draft |-> <<>>],
     [kind |-> "ok", draft |-> Some(Draft(req))]}

\* catch (error): which settled fetches store nothing
DraftNotStored(resp) == resp.kind = "network_error"

\* fetchDraft after its await: data.draft is stored whatever the HTTP status
\* was; a rejected fetch is only logged.
DraftSettled ==
    /\ \E req \in draftRequests :
          /\ draftRequests' = draftRequests \ {req}
          /\ \E resp \in DraftResponses(req) :
                IF DraftNotStored(resp)
                THEN /\ UNCHANGED draftEmail
                     /\ lastCall' = Call("fetchDraft:caught", resp.kind)
                ELSE /\ draftEmail' = resp.draft
                     /\ lastCall' = Call("fetchDraft:resolved", resp.kind)
    /\ UNCHANGED <<processVars, status, scheduleVars, loadVars, draftDeps,
                   selectedCandidate, isSchedulingModalOpen, selectedSlot,
                   emailTemplate, selectedDate, selectedTime>>

-----------------------------------------------------------------------------
(* The mount effect and the calendar provider *)

\* What a settled /api/calendar fetch can deliver: a rejected fetch, a non-OK
\* status, a body that is not JSON, or { calendar_url }.
CalendarResponses ==
    {[kind |-> k, calendar_url |-> ""] : k \in {"network_error", "http_error", "bad_body"}}
    \cup {[kind |-> "ok", calendar_url |-> "https://calendar.example/embed"]}

\* Which of the two requests of fetchData did not succeed.
FailedPart(cal, av) ==
    IF cal.kind = "ok" /\ av.kind = "ok" THEN "none"
    ELSE IF av.kind = "ok" THEN "calendar"
    ELSE IF cal.kind = "ok" THEN "availability"
    ELSE "both"

\* Promise.all resolved, neither response has !ok, both json() calls resolved
LoadedWithCalendarAlone(cal, av) == cal.kind = "ok"
Loaded(cal, av) == cal.kind = "ok" /\ av.kind = "ok"

\* fetchData after Promise.all and both json() calls: both stored, or the catch.
FetchDataSettled ==
    /\ initialLoad = "pending"
    /\ initialLoad' = "done"
    /\ \E cal \in CalendarResponses, av \in AvailabilityResponses :
          IF Loaded(cal, av)
          THEN /\ calendarUrl' = cal.calendar_url
               /\ availability' = av.body
               /\ lastCall' = Call("fetchData:resolved", FailedPart(cal, av))
               /\ UNCHANGED status
          ELSE /\ status' = MkStatus(FALSE, FALSE,
                     Msg("Failed to load calendar data. Some features may not work.", "", 0),
                     "error")
               /\ lastCall' = Call("fetchData:caught", FailedPart(cal, av))
               /\ UNCHANGED <<calendarUrl, availability>>
    /\ UNCHANGED <<processVars, scheduleVars, modalVars, availabilityRequests, busy,
                   timezone, draftVars>>

\* Somebody books or frees time in the calendar.
CalendarChanges ==
    /\ \/ \E b \in BusyIntervals :
             b.from < b.to /\ Cardinality(busy) < MaxBusy /\ busy' = busy \cup {b}
       \/ \E b \in busy : busy' = busy \ {b}
    /\ lastCall' = Call("calendar:changed", "")
    /\ UNCHANGED <<processVars, status, scheduleVars, modalVars, calendarUrl,
                   availability, availabilityRequests, initialLoad, timezone,
                   draftVars>>

-----------------------------------------------------------------------------
(* The rendered controls: which handler a user gesture can reach *)

\* disabled={status.isProcessing} of the textarea, the file input, the remove buttons
InputsDisabled == status.isProcessing

\* disabled of the Process Resumes button
ProcessDisabled ==
    Trim(jobDescription) = <<>> \/ Len(uploadedFiles) = 0 \/ status.isProcessing

\* disabled of the Schedule & Send Invitation button
ScheduleDisabled == IsNull(selectedDate) \/ selectedTime = <<>> \/ status.isScheduling

\* A gesture needs the component on the page.
Mounted == ~RenderThrows

TypeJobDescription ==
    Mounted /\ ~InputsDisabled /\ \E value \in JobDescriptions : setJobDescription(value)
ChooseFiles == Mounted /\ ~InputsDisabled /\ \E files \in FileOffers : handleFileUpload(files)
DropFiles == Mounted /\ \E files \in FileOffers : handleFileDrop(files)
ClickRemove ==
    /\ Mounted
    /\ ~InputsDisabled
    /\ \E index \in 0..(Len(uploadedFiles) - 1) : removeFile(index)
ClickCheck == Mounted /\ \E c \in Range(candidates) : toggleCandidateSelection(c.id)
ClickProcess == Mounted /\ ~ProcessDisabled /\ processResumes
ClickScheduleFor == Mounted /\ \E c \in Range(candidates) : openSchedulingModal(c)
PickDateAt(times) ==
    /\ Mounted
    /\ ModalRendered
    /\ \E d \in Days, m \in times : DatePickerChange([day |-> d, min |-> m])
PickDate == PickDateAt(ClockTimes)
PickSlot ==
    /\ Mounted
    /\ ModalRendered
    /\ \E time \in Range(availableSlotsForSelectedDate) : SlotClick(time)
PickTemplate == Mounted /\ ModalRendered /\ \E value \in Templates : setEmailTemplate(value)
ClickCancel == Mounted /\ ModalRendered /\ CancelClick
ClickSend == Mounted /\ ModalRendered /\ ~ScheduleDisabled /\ handleScheduleInterview

Settle ==
    \/ \E i \in 1..Len(processRequests) : ProcessSettled(i)
    \/ \E i \in 1..Len(scheduleRequests) : ScheduleSettled(i)
    \/ AvailabilitySettled
    \/ FetchDataSettled

Backend ==
    \/ \E i \in 1..Len(scheduleRequests) : CreateEvent(i)
    \/ \E i \in 1..Len(scheduleRequests) : SendEmail(i)
    \/ CalendarChanges

-----------------------------------------------------------------------------
(* Specifications *)

Init ==
    /\ jobDescription = <<>>
    /\ uploadedFiles = <<>>
    /\ candidates = <<>>
    /\ status = MkStatus(FALSE, FALSE, Msg("", "", 0), "info")
    /\ calendarUrl = ""
    /\ availability = Array(<<>>)
    /\ selectedCandidate = Null
    /\ isSchedulingModalOpen = FALSE
    /\ draftEmail = <<>>
    /\ selectedSlot = Null
    /\ emailTemplate = "professional"
    /\ selectedDate = Null
    /\ selectedTime = <<>>
    /\ processRequests = <<>>
    /\ scheduleRequests = <<>>
    /\ availabilityRequests = 0
    /\ initialLoad = "pending"
    /\ busy = {}
    /\ timezone \in TzOffsets
    /\ lastCall = Call("mount", "")
    /\ offeredLog = [pdf |-> FALSE, other |-> FALSE]
    /\ draftRequests = {}
    /\ draftDeps = DraftDeps

\* The application as a user drives it through its rendered controls.
Next ==
    \/ TypeJobDescription
    \/ ChooseFiles
    \/ DropFiles
    \/ ClickRemove
    \/ ClickCheck
    \/ ClickProcess
    \/ ClickScheduleFor
    \/ PickDate
    \/ PickSlot
    \/ PickTemplate
    \/ ClickCancel
    \/ ClickSend
    \/ Settle
    \/ Backend

Spec == Init /\ [][Next]_vars

\* The upload and processing handlers on their own, each callable in any
\* state: a handler's early return is its own guard, whatever the rendered
\* control in front of it allows.
NextProcess ==
    \/ \E value \in JobDescriptions : setJobDescription(value)
    \/ \E files \in PlainOffers : handleFileUpload(files)
    \/ \E files \in PlainOffers : handleFileDrop(files)
    \/ \E index \in 0..(Len(uploadedFiles) - 1) : removeFile(index)
    \/ processResumes
    \/ \E i \in 1..Len(processRequests) : ProcessSettled(i)

\* The page just mounted in a browser whose clock is on UTC.
InitInUtc == Init /\ timezone = 0

SpecProcess == InitInUtc /\ [][NextProcess]_vars


\* A state Spec reaches: the mount effect has stored the calendar data, a PDF
\* was chosen, a job description typed, and a processing run returned its
\* candidate.
AfterProcessingIn(zones) ==
    LET files == <<[name |-> "a", type |-> PDF]>>
        ranked == RankCandidates(files, [i \in {1} |-> 2], {1})
    IN /\ jobDescription = <<" ", "g", "o">>
       /\ uploadedFiles = files
       /\ candidates = MapCandidates(ranked)
       /\ status = MkStatus(FALSE, FALSE,
              Msg("Successfully analyzed candidates", "", 1), "success")
       /\ calendarUrl = "https://calendar.example/embed"
       /\ availability \in {Array(ComputeAvailability(w, {})) : w \in Windows}
       /\ selectedCandidate = Null
       /\ isSchedulingModalOpen = FALSE
       /\ draftEmail = <<>>
       /\ selectedSlot = Null
       /\ emailTemplate = "professional"
       /\ selectedDate = Null
       /\ selectedTime = <<>>
       /\ processRequests = <<>>
       /\ scheduleRequests = <<>>
       /\ availabilityRequests = 0
       /\ initialLoad = "done"
       /\ busy = {}
       /\ timezone \in zones
       /\ lastCall = Call("processResumes:resolved", "ok")
       /\ offeredLog = [pdf |-> TRUE, other |-> FALSE]
       /\ draftRequests = {}
       /\ draftDeps = DraftDeps

AfterProcessing == AfterProcessingIn({0})

\* The same state in a browser of any of the time zones.
AfterProcessingAnywhere == AfterProcessingIn(TzOffsets)

\* The scheduling dialog from there on, with handleScheduleInterview callable
\* in any state and the calendar left alone.
NextSchedule ==
    \/ ClickScheduleFor
    \/ PickDateAt({600})
    \/ PickSlot
    \/ ClickCancel
    \/ handleScheduleInterview
    \/ \E i \in 1..Len(scheduleRequests) : ScheduleSettled(i)
    \/ \E i \in 1..Len(scheduleRequests) : CreateEvent(i)
    \/ \E i \in 1..Len(scheduleRequests) : SendEmail(i)
    \/ AvailabilitySettled

SpecSchedule == AfterProcessing /\ [][NextSchedule]_vars

\* A state Spec reaches from AfterProcessing: Schedule was pressed for the
\* candidate, the availability fetch of the dialog settled, a date and its
\* first slot were picked.
DialogFilled ==
    LET files == <<[name |-> "a", type |-> PDF]>>
        ranked == RankCandidates(files, [i \in {1} |-> 2], {1})
    IN /\ jobDescription = <<" ", "g", "o">>
       /\ uploadedFiles = files
       /\ candidates = MapCandidates(ranked)
       /\ status = MkStatus(FALSE, FALSE,
              Msg("Successfully analyzed candidates", "", 1), "success")
       /\ calendarUrl = "https://calendar.example/embed"
       /\ availability = Array(ComputeAvailability(<<1>>, {}))
       /\ selectedCandidate = Some(candidates[1])
       /\ isSchedulingModalOpen = TRUE
       /\ draftEmail = <<>>
       /\ selectedSlot = Some(SlotString(BusinessStart))
       /\ emailTemplate = "professional"
       /\ selectedDate = Some([day |-> 1, min |-> 600])
       /\ selectedTime = SlotString(BusinessStart)
       /\ processRequests = <<>>
       /\ scheduleRequests = <<>>
       /\ availabilityRequests = 0
       /\ initialLoad = "done"
       /\ busy = {}
       /\ timezone = 0
       /\ lastCall = Call("slot.onClick", "")
       /\ offeredLog = [pdf |-> TRUE, other |-> FALSE]
       /\ draftRequests = {}
       /\ draftDeps = DraftDeps

\* The two submissions side by side, through the rendered buttons: the user
\* sends the invitation, cancels the dialog, processes the resumes again.
NextSubmit ==
    \/ ClickProcess
    \/ \E i \in 1..Len(processRequests) : ProcessSettled(i)
    \/ ClickCancel
    \/ ClickSend
    \/ \E i \in 1..Len(scheduleRequests) : CreateEvent(i)
    \/ \E i \in 1..Len(scheduleRequests) : SendEmail(i)
    \/ \E i \in 1..Len(scheduleRequests) : ScheduleSettled(i)

SpecSubmit == DialogFilled /\ [][NextSubmit]_vars

\* Every fetch settles, and the backend gets on with a request it has.
Fairness ==
    /\ WF_vars(\E i \in 1..Len(processRequests) : ProcessSettled(i))
    /\ WF_vars(\E i \in 1..Len(scheduleRequests) : ScheduleSettled(i))
    /\ WF_vars(\E i \in 1..Len(scheduleRequests) : CreateEvent(i))
    /\ WF_vars(\E i \in 1..Len(scheduleRequests) : SendEmail(i))

SpecSubmitFair == SpecSubmit /\ Fairness

\* The mount effect against a calendar that other people book and free.
NextAvailability ==
    \/ FetchDataSettled
    \/ CalendarChanges

SpecAvailability == Init /\ [][NextAvailability]_vars

\* Job descriptions and resume sets with which the ranking pipeline is run.
RankedDescriptions == {<<" ", "g", "o">>, <<"g">>}
RankedUploads ==
    {files \in FileOffers : files # <<>> /\ \A f \in Range(files) : f.type = PDF}

\* The page with a job description typed and PDFs chosen, the mount effect
\* done.
ReadyToProcess ==
    /\ jobDescription \in RankedDescriptions
    /\ uploadedFiles \in RankedUploads
    /\ candidates = <<>>
    /\ status = MkStatus(FALSE, FALSE, Msg("", "", 0), "info")
    /\ calendarUrl = "https://calendar.example/embed"
    /\ availability = Array(ComputeAvailability(<<1>>, {}))
    /\ selectedCandidate = Null
    /\ isSchedulingModalOpen = FALSE
    /\ draftEmail = <<>>
    /\ selectedSlot = Null
    /\ emailTemplate = "professional"
    /\ selectedDate = Null
    /\ selectedTime = <<>>
    /\ processRequests = <<>>
    /\ scheduleRequests = <<>>
    /\ availabilityRequests = 0
    /\ initialLoad = "done"
    /\ busy = {}
    /\ timezone = 0
    /\ lastCall = Call("handleFileUpload", "")
    /\ offeredLog = [pdf |-> TRUE, other |-> FALSE]
    /\ draftRequests = {}
    /\ draftDeps = DraftDeps

\* Processing runs against the ranking pipeline, one after the other.
NextRanking ==
    \/ ClickProcess
    \/ \E i \in 1..Len(processRequests) : RunRanking(i)
    \/ \E i \in 1..Len(processRequests) : RankedSettled(i)

SpecRanking == ReadyToProcess /\ [][NextRanking]_vars

\* A state Spec reaches: two PDFs were processed and both candidates are
\* listed, the mount effect has stored the calendar data.
TwoCandidates ==
    LET files == <<[name |-> "a", type |-> PDF], [name |-> "b", type |-> PDF]>>
        ranked == RankCandidates(files, [i \in {1, 2} |-> 3 - i], {1, 2})
    IN /\ jobDescription = <<" ", "g", "o">>
       /\ uploadedFiles = files
       /\ candidates = MapCandidates(ranked)
       /\ status = MkStatus(FALSE, FALSE,
              Msg("Successfully analyzed candidates", "", 2), "success")
       /\ calendarUrl = "https://calendar.example/embed"
       /\ availability = Array(ComputeAvailability(<<1>>, {}))
       /\ selectedCandidate = Null
       /\ isSchedulingModalOpen = FALSE
       /\ draftEmail = <<>>
       /\ selectedSlot = Null
       /\ emailTemplate = "professional"
       /\ selectedDate = Null
       /\ selectedTime = <<>>
       /\ processRequests = <<>>
       /\ scheduleRequests = <<>>
       /\ availabilityRequests = 0
       /\ initialLoad = "done"
       /\ busy = {}
       /\ timezone = 0
       /\ lastCall = Call("processResumes:resolved", "ok")
       /\ offeredLog = [pdf |-> TRUE, other |-> FALSE]
       /\ draftRequests = {}
       /\ draftDeps = DraftDeps

\* The scheduling dialog through its rendered controls, opened for one
\* candidate or the other.
NextDialogs ==
    \/ ClickScheduleFor
    \/ AvailabilitySettled
    \/ PickDateAt({600})
    \/ PickSlot
    \/ ClickCancel
    \/ ClickSend
    \/ \E i \in 1..Len(scheduleRequests) : CreateEvent(i)
    \/ \E i \in 1..Len(scheduleRequests) : SendEmail(i)
    \/ \E i \in 1..Len(scheduleRequests) : ScheduleSettled(i)

SpecDialogs == TwoCandidates /\ [][NextDialogs]_vars

\* Picking a date and a slot and sending, in any time zone and at any time of
\* day, while the calendar is booked and freed.
NextPick ==
    \/ ClickScheduleFor
    \/ AvailabilitySettled
    \/ PickDate
    \/ PickSlot
    \/ ClickSend
    \/ \E i \in 1..Len(scheduleRequests) : ScheduleSettled(i)
    \/ CalendarChanges

SpecPick == AfterProcessingAnywhere /\ [][NextPick]_vars

\* The dialog with its email preview: every gesture finds the draft effect
\* already run for the render before it.
NextDraft ==
    \/ Flushed /\ ClickScheduleFor
    \/ AvailabilitySettled
    \/ Flushed /\ PickDateAt({600})
    \/ Flushed /\ PickSlot
    \/ Flushed /\ PickTemplate
    \/ fetchDraftEffect
    \/ DraftSettled

SpecDraft == AfterProcessing /\ [][NextDraft]_vars

\* The upload panel through its rendered controls: the textarea, the file
\* input, the drop zone, the remove buttons and the Process button.
NextUpload ==
    \/ TypeJobDescription
    \/ ChooseFiles
    \/ DropFiles
    \/ ClickRemove
    \/ ClickProcess
    \/ \E i \in 1..Len(processRequests) : ProcessSettled(i)

SpecUpload == InitInUtc /\ [][NextUpload]_vars

\* A list the backend delivers when it is configured to offer slots around
\* the clock: one entry for each date a selected day can fall on in UTC.
AllDaySlots == << <<0, 15>>, <<1, 45>>, <<9, 0>>, <<23, 45>> >>
AllDayAvailability == Array([i \in 1..4 |-> [date |-> i - 1, slots |-> AllDaySlots]])

\* A state Spec reaches from AfterProcessingAnywhere: Schedule was pressed for
\* the candidate and the availability fetch of the dialog delivered such a
\* list.
DialogOpenAllDay ==
    LET files == <<[name |-> "a", type |-> PDF]>>
        ranked == RankCandidates(files, [i \in {1} |-> 2], {1})
    IN /\ jobDescription = <<" ", "g", "o">>
       /\ uploadedFiles = files
       /\ candidates = MapCandidates(ranked)
       /\ status = MkStatus(FALSE, FALSE,
              Msg("Successfully analyzed candidates", "", 1), "success")
       /\ calendarUrl = "https://calendar.example/embed"
       /\ availability = AllDayAvailability
       /\ selectedCandidate = Some(candidates[1])
       /\ isSchedulingModalOpen = TRUE
       /\ draftEmail = <<>>
       /\ selectedSlot = Null
       /\ emailTemplate = "professional"
       /\ selectedDate = Null
       /\ selectedTime = <<>>
       /\ processRequests = <<>>
       /\ scheduleRequests = <<>>
       /\ availabilityRequests = 0
       /\ initialLoad = "done"
       /\ busy = {}
       /\ timezone \in TzOffsets \cup {SummerOffset}
       /\ lastCall = Call("openSchedulingModal:resolved", "ok")
       /\ offeredLog = [pdf |-> TRUE, other |-> FALSE]
       /\ draftRequests = {}
       /\ draftDeps = DraftDeps

\* Dates and slots picked and sent at any time of the day, in any time zone.
NextRequest ==
    \/ PickDate
    \/ PickSlot
    \/ PickTemplate
    \/ ClickSend
    \/ \E i \in 1..Len(scheduleRequests) : CreateEvent(i)
    \/ \E i \in 1..Len(scheduleRequests) : ScheduleSettled(i)

SpecRequest == DialogOpenAllDay /\ [][NextRequest]_vars

\* Offers in which the order of the files shows: single files, two different
\* PDFs, and a PDF next to a file that is none.
OrderedOffers ==
    {files \in FileOffers :
        /\ files # <<>>
        /\ Len(files) = 2 => (files[1].name = "b" /\ files[2].name = "a")}

\* The inputs of a processing run, through the rendered controls: the job
\* description is typed, such files are chosen, dropped and removed, and the
\* run sends what is there.
NextInputs ==
    \/ TypeJobDescription
    \/ Mounted /\ ~InputsDisabled /\ \E files \in OrderedOffers : handleFileUpload(files)
    \/ Mounted /\ \E files \in OrderedOffers : handleFileDrop(files)
    \/ ClickRemove
    \/ ClickProcess
    \/ \E i \in 1..Len(processRequests) : ProcessSettled(i)

SpecInputs == InitInUtc /\ [][NextInputs]_vars

\* The bulk variant after a processing run that returned three candidates
\* with their contact data, one of them without a phone number; the state
\* cells the variant does not have are at rest.
ThreeContacts ==
    /\ jobDescription = <<" ", "g", "o">>
    /\ uploadedFiles = <<[name |-> "a", type |-> PDF]>>
    /\ candidates =
          [i \in 1..3 |->
              [id |-> CandidateId(i - 1), selected |-> FALSE,
               name |-> <<"a", "b", "a">>[i],
               email |-> <<"a@x", "b@x", "c@x">>[i],
               phone |-> <<"555", "", "555">>[i],
               score |-> 2, upload |-> i]]
    /\ status = MkStatus(FALSE, FALSE,
           Msg("Successfully analyzed candidates", "", 3), "success")
    /\ calendarUrl = ""
    /\ availability = Array(<<>>)
    /\ selectedCandidate = Null
    /\ isSchedulingModalOpen = FALSE
    /\ draftEmail = <<>>
    /\ selectedSlot = Null
    /\ emailTemplate = "professional"
    /\ selectedDate = Null
    /\ selectedTime = <<>>
    /\ processRequests = <<>>
    /\ scheduleRequests = <<>>
    /\ availabilityRequests = 0
    /\ initialLoad = "done"
    /\ busy = {}
    /\ timezone = 0
    /\ lastCall = Call("processResumes:resolved", "ok")
    /\ offeredLog = [pdf |-> TRUE, other |-> FALSE]
    /\ draftRequests = {}
    /\ draftDeps = DraftDeps

\* Candidates are checked and unchecked and scheduleInterviews is called, in
\* any state.
NextBulk ==
    \/ \E c \in Range(candidates) : toggleCandidateSelection(c.id)
    \/ scheduleInterviews
    \/ \E i \in 1..Len(scheduleRequests) : BulkScheduleSettled(i)

SpecBulk == ThreeContacts /\ [][NextBulk]_vars

\* Ids toggleCandidateSelection may be called with: those of the list and one
\* no candidate has.
CandidateIds == {CandidateId(index) : index \in 0..2}

\* The candidate list: selections are toggled, the resumes are processed
\* again.
NextSelect ==
    \/ \E id \in CandidateIds : toggleCandidateSelection(id)
    \/ ClickProcess
    \/ \E i \in 1..Len(processRequests) : ProcessSettled(i)
    \/ \E i \in 1..Len(processRequests) : TaggedSettled(i)

SpecSelect == TwoCandidates /\ [][NextSelect]_vars

-----------------------------------------------------------------------------
(* Properties of the upload and processing handlers *)

ValidationStatus ==
    MkStatus(FALSE, FALSE,
             Msg("Please provide job description and upload resumes", "", 0), "error")

\* C1: a call of processResumes made while the job description is empty or
\* only white space, or while no file is uploaded, sets the error status with
\* its message, sends no request to /api/process and leaves the candidate
\* list as it was.
C1_ValidationSendsNothing ==
    [][(lastCall'.name = "processResumes"
        /\ (Trim(jobDescription) = <<>> \/ Len(uploadedFiles) = 0))
       => (/\ status' = ValidationStatus
           /\ processRequests' = processRequests
           /\ candidates' = candidates)]_vars

\* processResumes has just returned early on a white-space job description
\* although files were uploaded.
C1_Witness ==
    /\ lastCall.name = "processResumes"
    /\ jobDescription # <<>>
    /\ Trim(jobDescription) = <<>>
    /\ Len(uploadedFiles) > 0
    /\ status = ValidationStatus
    /\ processRequests = <<>>

\* C3: whatever the user chose, dropped and removed, every uploaded file is a
\* PDF, and so is every file of a request sent to /api/process.
C3_OnlyPdfUploaded ==
    /\ \A f \in Range(uploadedFiles) : f.type = PDF
    /\ \A req \in Range(processRequests) : \A f \in Range(req.resumes) : f.type = PDF

\* A non-PDF file was offered, and a request is on its way.
C3_Witness ==
    /\ offeredLog.other
    /\ Len(uploadedFiles) > 0
    /\ processRequests # <<>>

\* C4: as long as every file offered to the file input or the drop zone was a
\* non-PDF, no request to /api/process exists, and a call of processResumes
\* ends in the validation error.
C4_NonPdfOnlyIsRejected ==
    ~offeredLog.pdf =>
        /\ processRequests = <<>>
        /\ lastCall.name = "processResumes" => status = ValidationStatus

\* Only non-PDF files were offered, a job description is there, and
\* processResumes has run.
C4_Witness ==
    /\ offeredLog.other
    /\ ~offeredLog.pdf
    /\ Trim(jobDescription) # <<>>
    /\ lastCall.name = "processResumes"
    /\ status = ValidationStatus

\* The list is in descending score order, equal scores in upload order.
SortedStable(list) ==
    \A i, j \in 1..Len(list) :
        i < j => \/ list[i].score > list[j].score
                 \/ list[i].score = list[j].score /\ list[i].upload < list[j].upload

\* C7: the candidate list a successful process operation leaves is sorted by
\* descending score, and candidates of equal score are in upload order.
C7_CandidatesSortedStable ==
    lastCall.name = "processResumes:resolved" => SortedStable(candidates)

\* A successful run ranked the second upload above the first.
C7_Witness ==
    /\ lastCall.name = "processResumes:resolved"
    /\ Len(candidates) = 2
    /\ candidates[1].upload = 2
    /\ candidates[1].score > candidates[2].score

-----------------------------------------------------------------------------
(* Properties of the scheduling dialog and of the two-step scheduling run *)

SelectionStatus ==
    MkStatus(FALSE, FALSE, Msg("Please select a candidate, date and time", "", 0), "error")

\* C2: a call of handleScheduleInterview made while the selected candidate,
\* the selected date or the selected time is missing sets the validation
\* error status and sends no request to /api/schedule.
C2_SelectionValidated ==
    [][(lastCall'.name = "handleScheduleInterview"
        /\ (IsNull(selectedCandidate) \/ IsNull(selectedDate) \/ selectedTime = <<>>))
       => (status' = SelectionStatus /\ scheduleRequests' = scheduleRequests)]_vars

\* handleScheduleInterview has just returned early: a candidate and a date are
\* selected, the time is not.
C2_Witness ==
    /\ lastCall.name = "handleScheduleInterview"
    /\ ~IsNull(selectedCandidate)
    /\ ~IsNull(selectedDate)
    /\ selectedTime = <<>>
    /\ status = SelectionStatus
    /\ scheduleRequests = <<>>

ScheduleContinuations ==
    {"handleScheduleInterview:resolved", "handleScheduleInterview:caught"}

\* C8: a request whose calendar event was not created never has its email
\* attempted, and when the response of a failed event creation is handed to
\* the dialog the operation is shown as failed and no longer busy.
C8_NoEmailWithoutEvent ==
    /\ \A req \in Range(scheduleRequests) : req.event # "created" => req.email = "none"
    /\ (lastCall.name \in ScheduleContinuations /\ lastCall.outcome = "error")
          => status = SchedulingErrorStatus

\* The response of a failed event creation has just been handled.
C8_Witness ==
    /\ lastCall = Call("handleScheduleInterview:caught", "error")
    /\ status = SchedulingErrorStatus

\* C9: when the event was created and the email failed, the response handed
\* to the dialog is shown with the backend's partial-success message and not
\* as the failure a failed scheduling run shows.
C9_PartialSuccessShown ==
    (lastCall.name \in ScheduleContinuations /\ lastCall.outcome = "partial")
       => /\ status.message.text = PartialMessage
          /\ status.type # "error"
          /\ status # SchedulingErrorStatus

\* A partial success has just been handled.
C9_Witness ==
    /\ lastCall = Call("handleScheduleInterview:resolved", "partial")
    /\ status.message.text = PartialMessage
    /\ status.type = "success"

-----------------------------------------------------------------------------
(* Properties of the status flags *)

ProcessingSteps ==
    {"processResumes", "processResumes:resolved", "processResumes:caught"}

SchedulingSteps ==
    {"handleScheduleInterview", "handleScheduleInterview:resolved",
     "handleScheduleInterview:caught"}

Settled == {"success", "error"}

\* C5: the two busy flags are independent: a step of processing leaves
\* isScheduling as it was, and a step of scheduling leaves isProcessing as
\* it was.
C5_FlagsIndependent ==
    [][/\ lastCall'.name \in ProcessingSteps
            => status'.isScheduling = status.isScheduling
       /\ lastCall'.name \in SchedulingSteps
            => status'.isProcessing = status.isProcessing]_vars

\* C6: once a processing request is in flight, its continuation eventually
\* runs and leaves isProcessing false with a status of type success or
\* error; likewise a scheduling request and isScheduling.
C6_SubmissionsSettle ==
    /\ (processRequests # << >>)
         ~> /\ lastCall.name \in {"processResumes:resolved",
                                  "processResumes:caught"}
            /\ ~status.isProcessing
            /\ status.type \in Settled
    /\ (scheduleRequests # << >>)
         ~> /\ lastCall.name \in {"handleScheduleInterview:resolved",
                                  "handleScheduleInterview:caught"}
            /\ ~status.isScheduling
            /\ status.type \in Settled

C6_Witness ==
    /\ lastCall.name = "handleScheduleInterview:caught"
    /\ scheduleRequests = << >>
    /\ ~status.isScheduling
    /\ status.type = "error"

-----------------------------------------------------------------------------
(* Properties of the availability computation *)

SlotStart(slot) == slot[1] * 60 + slot[2]

\* Some minute of the slot starting at t is a minute of the interval b.
SharesAMinute(t, b) ==
    \E m \in t..(t + SlotMinutes - 1) : b.from <= m /\ m < b.to

\* C10: every slot of the availability list the mount effect stored lies
\* within the business hours and shares no minute with a busy interval of
\* its day, whatever the window of days and the busy intervals.
C10_SlotsFreeInBusinessHours ==
    lastCall.name = "fetchData:resolved" =>
        \A i \in 1..Len(availability.items) :
            \A j \in 1..Len(availability.items[i].slots) :
                LET t == SlotStart(availability.items[i].slots[j])
                IN /\ BusinessStart <= t
                   /\ t + SlotMinutes <= BusinessEnd
                   /\ \A b \in busy :
                         b.day = availability.items[i].date => ~SharesAMinute(t, b)

C10_Witness ==
    /\ lastCall.name = "fetchData:resolved"
    /\ busy # {}
    /\ \E i \in 1..Len(availability.items) :
          /\ availability.items[i].date \in {b.day : b \in busy}
          /\ Len(availability.items[i].slots) = 1

-----------------------------------------------------------------------------
(* Properties of the ranking pipeline *)

\* The resumes of a request whose text was extracted and whose AI answer did
\* not parse.
FallbackResumes(req) ==
    {i \in req.readable : ~req.ai[i].parsed}

\* C11: in the response to a request with resumes whose AI answer did not
\* parse, the candidate list is not empty, every such resume has its
\* candidate, and candidates scored by the fallback from the same resume text
\* (against the request's one job description) have the same score.
C11_FallbackScoresDeterministic ==
    \A req \in Range(processRequests) :
        ("response" \in DOMAIN req /\ FallbackResumes(req) # {}) =>
            LET list == req.response.candidates
                fallen == {c \in Range(list) : c.source = "fallback"}
            IN /\ list # <<>>
               /\ {c.upload : c \in fallen} = FallbackResumes(req)
               /\ \A c, d \in fallen :
                     ResumeText(req.resumes[c.upload]) = ResumeText(req.resumes[d.upload])
                        => c.score = d.score

\* Two resumes with the same text went down the fallback path after AI
\* answers that differed.
C11_Witness ==
    \E req \in Range(processRequests) :
        /\ "response" \in DOMAIN req
        /\ Len(req.resumes) = 2
        /\ FallbackResumes(req) = {1, 2}
        /\ ResumeText(req.resumes[1]) = ResumeText(req.resumes[2])
        /\ req.ai[1].score # req.ai[2].score
        /\ Len(req.response.candidates) = 2
        /\ req.response.candidates[1].score > 0

-----------------------------------------------------------------------------
(* Properties of the busy flags as guards against a second submission *)

\* C12: while a /api/process request has not settled, status.isProcessing is
\* true, so that the Process button, the job description field and the file
\* input are disabled.
C12_BusyWhileProcessing ==
    processRequests # << >> =>
        /\ status.isProcessing
        /\ InputsDisabled
        /\ ProcessDisabled

\* The Schedule & Send Invitation button is on the page and enabled.
SendEnabled == Mounted /\ ModalRendered /\ ~ScheduleDisabled

\* C13: at most one /api/schedule request is in flight, and while one is, the
\* Schedule & Send Invitation button cannot trigger handleScheduleInterview.
C13_OneScheduleAtATime ==
    /\ Len(scheduleRequests) <= 1
    /\ scheduleRequests # << >> => ~SendEnabled

-----------------------------------------------------------------------------
(* Properties of the dialog's selection state *)

\* C14: when the response to candidate A's /api/schedule request is handled
\* while the dialog is open for another candidate B, the dialog stays open
\* and B, the selected date and the selected time stay selected.
C14_OtherDialogUntouched ==
    [][(/\ lastCall'.name \in ScheduleContinuations
        /\ ModalRendered
        /\ \A req \in Range(scheduleRequests) : selectedCandidate # Some(req.candidate))
       => UNCHANGED <<isSchedulingModalOpen, selectedCandidate, selectedDate,
                      selectedTime>>]_vars

\* C18: a call of openSchedulingModal that opens the dialog leaves it with
\* no date, no time and no email draft selected.
C18_DialogOpensEmpty ==
    [][(lastCall'.name = "openSchedulingModal" /\ ~isSchedulingModalOpen)
       => (selectedDate' = Null /\ selectedTime' = <<>> /\ draftEmail' = <<>>)]_vars

-----------------------------------------------------------------------------
(* Properties of a failed processing run *)

\* C20: when the fetch of /api/process is rejected, the response is not OK
\* or its body cannot be read, the candidate list and the uploaded files are
\* left as they were, the status is of type error with isProcessing false,
\* the inputs are enabled, and the Process button is enabled whenever a job
\* description and files are there.
C20_FailureLeavesPageUsable ==
    [][lastCall'.name = "processResumes:caught"
       => /\ lastCall'.outcome \in {"network_error", "http_error", "bad_body"}
          /\ candidates' = candidates
          /\ uploadedFiles' = uploadedFiles
          /\ status'.type = "error"
          /\ ~status'.isProcessing
          /\ ~InputsDisabled'
          /\ ProcessDisabled' <=> (Trim(jobDescription') = <<>> \/ uploadedFiles' = <<>>)]_vars

\* A failed run has just been handled with candidates of an earlier run on
\* the page, and the Process button is enabled.
C20_Witness ==
    /\ lastCall = Call("processResumes:caught", "bad_body")
    /\ candidates # <<>>
    /\ uploadedFiles # <<>>
    /\ status.type = "error"
    /\ ~ProcessDisabled

-----------------------------------------------------------------------------
(* Properties of the slots offered for the selected date *)

\* The slots the availability list gives for a calendar date.
EntrySlots(day) ==
    LET found == {i \in 1..Len(availability.items) : availability.items[i].date = day}
    IN IF found = {} THEN <<>>
       ELSE availability.items[CHOOSE i \in found : \A j \in found : i <= j].slots

\* C16: a request sent by handleScheduleInterview is for a date and a time
\* that the availability list held at that moment gives as a slot of that
\* date.
C16_SubmittedSlotIsListed ==
    [][(lastCall'.name = "handleScheduleInterview"
        /\ Len(scheduleRequests') > Len(scheduleRequests))
       => (/\ availability.isArray
           /\ selectedTime \in Range(EntrySlots(selectedDate[1].day)))]_vars

\* C17: with a list of entries held as availability, the selectable times are
\* the slots of the entry for the calendar date selected in the date picker,
\* and there are none when no date is selected or the date has no entry;
\* computing them raises no error.
C17_SlotsOfSelectedDate ==
    availability.isArray =>
        /\ ~RenderThrows
        /\ availableSlotsForSelectedDate =
              IF IsNull(selectedDate) THEN <<>> ELSE EntrySlots(selectedDate[1].day)

-----------------------------------------------------------------------------
(* Properties of the email preview *)

\* C15: once the draft effect has run for the present selection of
\* candidate, date, time and template and every /api/draft_email request has
\* settled, the last of them with a draft, the draft shown is the one made
\* for the present selection.
C15_DraftIsForSelection ==
    (/\ lastCall = Call("fetchDraft:resolved", "ok")
     /\ draftRequests = {}
     /\ Flushed
     /\ DraftWanted)
       => draftEmail = Some(Draft(DraftRequest))

-----------------------------------------------------------------------------
(* Properties of the upload panel while a run is in flight *)

\* C21: while a request to /api/process is in flight, no step changes the
\* uploaded-file list or the job description.
C21_InputsFrozenInFlight ==
    [][processRequests # <<>> =>
          (uploadedFiles' = uploadedFiles /\ jobDescription' = jobDescription)]_vars

-----------------------------------------------------------------------------
(* Properties of the candidate list *)

\* candidates' is list with id and selected replaced position by position.
Relabelled(list) ==
    /\ Len(candidates') = Len(list)
    /\ \A i \in 1..Len(list) :
          /\ candidates'[i].id = CandidateId(i - 1)
          /\ candidates'[i].selected = FALSE
          /\ \A field \in DOMAIN list[i] \ {"id", "selected"} :
                candidates'[i][field] = list[i][field]

\* C22: after a successful process operation the candidate list is the
\* response's list with candidate number i (from 0) given the id
\* candidate-i, whatever id the response gave it, and selected = false: the
\* ids are pairwise distinct and no earlier selection is left.
C22_IdsFromPosition ==
    [][lastCall'.name = "processResumes:resolved" =>
          /\ \E req \in Range(processRequests) :
                \E resp \in ProcessResponses(req) \cup TaggedResponses(req) :
                    Relabelled(resp.candidates)
          /\ \A i, j \in 1..Len(candidates') :
                i # j => candidates'[i].id # candidates'[j].id
          /\ \A i \in 1..Len(candidates') : ~candidates'[i].selected]_vars

\* A response whose candidates carried ids of their own has been stored as a
\* list of two.
C22_Witness ==
    /\ lastCall = Call("processResumes:resolved", "ok_with_ids")
    /\ Len(candidates) = 2
    /\ candidates[1].id = CandidateId(0)
    /\ candidates[2].id = CandidateId(1)

\* What a call with candidateId is to do to the list and to the rest.
ToggledOnly(candidateId) ==
    /\ Len(candidates') = Len(candidates)
    /\ \A i \in 1..Len(candidates) :
          /\ DOMAIN candidates'[i] = DOMAIN candidates[i]
          /\ candidates'[i].selected =
                (IF candidates[i].id = candidateId
                 THEN ~candidates[i].selected ELSE candidates[i].selected)
          /\ \A field \in DOMAIN candidates[i] \ {"selected"} :
                candidates'[i][field] = candidates[i][field]
    /\ UNCHANGED <<jobDescription, uploadedFiles, processRequests, offeredLog, status,
                   modalVars, scheduleVars, loadVars, draftVars>>

-----------------------------------------------------------------------------
(* Properties of the /api/schedule request *)

\* Minutes from the start of day 0, of a UTC reading and of a local one.
UtcInstant(reading) == reading.day * 1440 + reading.min
LocalInstant(day, hours, minutes) ==
    day * 1440 + hours * 60 + minutes
        - Offset([day |-> day, min |-> hours * 60 + minutes])

-----------------------------------------------------------------------------
(* Properties of the date and time selection *)

\* C25: every change of the selected date, and every run of the date
\* picker's onChange, leaves selectedTime empty and selectedSlot null; a
\* time that is selected was therefore chosen after the date was, and only
\* such a time can be submitted with it.
C25_DateChangeResetsTime ==
    [][(lastCall'.name = "DatePicker.onChange" \/ selectedDate' # selectedDate)
          => (selectedTime' = <<>> /\ selectedSlot' = Null)]_vars

\* A time was chosen and submitted for one date, and with the request still
\* unanswered the other date has just been picked.
C25_Witness ==
    /\ lastCall.name = "DatePicker.onChange"
    /\ scheduleRequests # <<>>
    /\ scheduleRequests[1].start_time.day # selectedDate[1].day
    /\ selectedTime = <<>>
    /\ selectedSlot = Null

-----------------------------------------------------------------------------
(* Properties of the initial load *)

LoadFailedStatus ==
    MkStatus(FALSE, FALSE,
             Msg("Failed to load calendar data. Some features may not work.", "", 0),
             "error")

\* C26: when fetchData has settled, calendarUrl and availability have both
\* been replaced if the /api/calendar and the /api/availability request both
\* succeeded; if either failed, both are as they were and the status is the
\* one load error.
C26_LoadAllOrNothing ==
    [][lastCall'.name \in {"fetchData:resolved", "fetchData:caught"} =>
          IF lastCall'.outcome = "none"
          THEN /\ calendarUrl' = "https://calendar.example/embed"
               /\ availability' \in {Array(ComputeAvailability(w, busy)) : w \in Windows}
               /\ status' = status
          ELSE /\ calendarUrl' = calendarUrl
               /\ availability' = availability
               /\ status' = LoadFailedStatus]_vars

\* The calendar request succeeded and the availability request failed, with
\* days booked in the calendar: nothing was stored.
C26_Witness ==
    /\ lastCall = Call("fetchData:caught", "availability")
    /\ busy # {}
    /\ calendarUrl = ""
    /\ availability = Array(<<>>)
    /\ status = LoadFailedStatus

\* C27: when the availability request of openSchedulingModal has failed, by
\* a rejected fetch or a non-OK response, the stored availability is the list
\* of {date, slots} entries it was before.
C27_FailedRefreshKeepsList ==
    [][(lastCall'.name \in {"openSchedulingModal:resolved", "openSchedulingModal:caught"}
        /\ lastCall'.outcome # "ok")
          => (availability' = availability /\ availability'.isArray)]_vars

-----------------------------------------------------------------------------
(* Properties of the status *)

\* C28: isProcessing and isScheduling are never both true, and while either
\* is true the type of the status is 'info'.
C28_BusyFlagsExclusive ==
    /\ ~(status.isProcessing /\ status.isScheduling)
    /\ (status.isProcessing \/ status.isScheduling) => status.type = "info"

\* Both requests are in flight, the later one's flag is the one that is set.
C28_Witness ==
    /\ processRequests # <<>>
    /\ scheduleRequests # <<>>
    /\ lastCall.name = "handleScheduleInterview"
    /\ status.isScheduling
    /\ ~status.isProcessing

-----------------------------------------------------------------------------
(* Properties of the /api/process request *)

\* The list after is the list before without its element number index
\* (from 0), the others in their order.
WithoutPosition(before, after, index) ==
    /\ Len(after) = Len(before) - 1
    /\ \A k \in 1..Len(after) :
          after[k] = IF k <= index THEN before[k] ELSE before[k + 1]

\* The list after is the list before followed by the PDFs of files, in the
\* order of files.
WithPdfsAppended(before, after, files) ==
    LET added == {k \in 1..Len(files) : files[k].type = PDF}
        nth(n) == CHOOSE k \in added : Cardinality({j \in added : j < k}) = n - 1
    IN /\ Len(after) = Len(before) + Cardinality(added)
       /\ \A k \in 1..Len(before) : after[k] = before[k]
       /\ \A n \in 1..Cardinality(added) : after[Len(before) + n] = files[nth(n)]

\* C29: a request sent to /api/process carries the job description as it
\* stands in the field and the uploaded files as they stand in the list, each
\* once and in the list's order; the list is kept in upload order, a chosen
\* or dropped set of files being appended and removeFile(i) taking out the
\* file at position i and no other.
C29_RequestCarriesInputs ==
    [][/\ (lastCall'.name = "processResumes"
           /\ Len(processRequests') > Len(processRequests)) =>
             processRequests'[Len(processRequests')] =
                 [job_description |-> jobDescription, resumes |-> uploadedFiles]
       /\ lastCall'.name = "removeFile" =>
             \A index \in 0..(Len(uploadedFiles) - 1) :
                 removeFile(index) => WithoutPosition(uploadedFiles, uploadedFiles', index)
       /\ lastCall'.name = "handleFileUpload" =>
             \A files \in OrderedOffers :
                 handleFileUpload(files)
                    => WithPdfsAppended(uploadedFiles, uploadedFiles', files)
       /\ lastCall'.name = "handleFileDrop" =>
             \A files \in OrderedOffers :
                 handleFileDrop(files)
                    => WithPdfsAppended(uploadedFiles, uploadedFiles', files)]_vars

\* A request is on its way with the job description as typed, its leading
\* blank included, and with file b, which is the one file of the list.
C29_Witness ==
    /\ processRequests # <<>>
    /\ processRequests[1].job_description = <<" ", "g", "o">>
    /\ processRequests[1].resumes = <<[name |-> "b", type |-> PDF]>>
    /\ uploadedFiles = processRequests[1].resumes
    /\ lastCall.name = "processResumes"

-----------------------------------------------------------------------------
(* Properties of the bulk scheduling variant *)

\* The positions of the selected candidates, and the n-th of them.
SelectedPositions == {i \in 1..Len(candidates) : candidates[i].selected}
NthSelected(n) ==
    CHOOSE i \in SelectedPositions :
        Cardinality({j \in SelectedPositions : j < i}) = n - 1

\* C30: a call of scheduleInterviews with candidates selected sends one
\* request to /api/schedule whose candidates are the selected ones and no
\* others, in list order, each as its name, email and phone only; with none
\* selected it sets the validation error and sends nothing.
C30_BulkRequestIsSelection ==
    [][lastCall'.name = "scheduleInterviews" =>
          IF SelectedPositions = {}
          THEN /\ scheduleRequests' = scheduleRequests
               /\ status' = MkStatus(FALSE, FALSE,
                      Msg("Please select at least one candidate", "", 0), "error")
          ELSE /\ Len(scheduleRequests') = Len(scheduleRequests) + 1
               /\ SubSeq(scheduleRequests', 1, Len(scheduleRequests)) = scheduleRequests
               /\ LET sent == scheduleRequests'[Len(scheduleRequests')].candidates
                  IN /\ Len(sent) = Cardinality(SelectedPositions)
                     /\ \A n \in 1..Len(sent) :
                           /\ DOMAIN sent[n] = {"name", "email", "phone"}
                           /\ sent[n].name = candidates[NthSelected(n)].name
                           /\ sent[n].email = candidates[NthSelected(n)].email
                           /\ sent[n].phone = candidates[NthSelected(n)].phone]_vars

\* The first and the third of three candidates are selected and their
\* contacts have just been sent, in that order.
C30_Witness ==
    /\ lastCall.name = "scheduleInterviews"
    /\ SelectedPositions = {1, 3}
    /\ Len(scheduleRequests) = 1
    /\ Len(scheduleRequests[1].candidates) = 2
    /\ scheduleRequests[1].candidates[1].email = "a@x"
    /\ scheduleRequests[1].candidates[2].email = "c@x"

=============================================================================
